---------------------------- MODULE Spec2Model ----------------------------
(***************************************************************************)
(* Seattle Sidekick: the chat endpoint and its tool registry.              *)
(*                                                                         *)
(* The repository holds four iterations of the same route handler:         *)
(*   "p0"    src/unnamed/part_000  (router, got {json: true}, fallback '') *)
(*   "p1"    src/unnamed/part_001  (router, fallback instruction)          *)
(*   "route" src/app/api/chat/route.tsx (UseTools, FixieCorpus class)      *)
(*   "p2"    src/unnamed/part_002  (UseTools, fixieFetch at module load)   *)
(* The model runs one of them per behaviour (variable variant).  The       *)
(* conversational model, the router and the tool dispatcher are external:  *)
(* their decisions are nondeterministic choices.  One call of got() or     *)
(* fetch() by the repository's code is one outbound request of the model.  *)
(***************************************************************************)
EXTENDS Integers, Sequences, FiniteSets, TLC

VARIABLES
  variant,        \* which iteration of the handler is deployed
  env,            \* process.env: the configuration
  coporaPromise,  \* p2: the module-level promise of the corpora metadata
  moduleSent,     \* outbound requests issued at module load
  handled,        \* requests accepted so far by the process
  pc,             \* per request: where its handling stands
  messages,       \* per request: the conversation of the request body
  route,          \* per request: the router's decision (p0, p1)
  inv,            \* per request: the tool invocation in progress or just ended
  nCalls,         \* per request: tool invocations started
  nSent,          \* per request: outbound requests issued for it
  aug,            \* per request: what UseTools contributed to the context
  err,            \* per request: the error that aborted it, if any
  corpus,         \* per request: the FixieCorpus object App constructed
  latestQuery,    \* per request: the query given to the router and to UseTools
  connected       \* per request: whether the client still reads the reply

vars == <<variant, env, coporaPromise, moduleSent, handled, pc, messages,
          route, inv, nCalls, nSent, aug, err, corpus, latestQuery, connected>>

-----------------------------------------------------------------------------
(* Bounds of the model.                                                    *)

\* tool invocations the dispatcher may make for one request
MaxCalls == 2
\* chunks the corpus service may return in one response
MaxChunks == 4
\* requests the process accepts in one behaviour
MaxRequests == 2

Variants == {"p0", "p1", "route", "p2"}
RouterVariants == {"p0", "p1"}
CorpusVariants == {"route", "p2"}
Requests == {"r1", "r2"}

-----------------------------------------------------------------------------
(* JavaScript values.  A string is a sequence of one-character strings so  *)
(* that concatenation and percent-encoding are computed, not assumed.      *)

Undefined == [t |-> "undefined"]
Str(s) == [t |-> "string", v |-> s]
Num(n) == [t |-> "number", v |-> n]
Obj(o) == [t |-> "object", v |-> o]

IsUndefined(x) == x.t = "undefined"
\* JavaScript truthiness of a string-or-undefined value (!x is its negation)
Truthy(x) == x.t = "string" /\ Len(x.v) > 0

\* property read of a JavaScript object: a missing property reads undefined
Prop(o, k) == IF k \in DOMAIN o THEN o[k] ELSE Undefined
\* a default that replaces every falsy value (x || d)
OrDefault_Falsy(x, d) ==
  IF IsUndefined(x) \/ (x.t = "string" /\ x.v = <<>>) \/ (x.t = "number" /\ x.v = 0)
  THEN d ELSE x

\* a destructuring default: it replaces undefined only
OrDefault(x, d) == IF IsUndefined(x) THEN d ELSE x
\* an omit that leaves the object as it is
Omit_Nothing(o, k) == o

\* the object without one property
Omit(o, k) == [n \in (DOMAIN o) \ {k} |-> o[n]]
NoProps == [n \in {} |-> Undefined]

RECURSIVE Flatten(_)
Flatten(ss) == IF ss = <<>> THEN <<>> ELSE Head(ss) \o Flatten(Tail(ss))

Digit(d) == CASE d = 0 -> "0" [] d = 1 -> "1" [] d = 2 -> "2" [] d = 3 -> "3"
              [] d = 4 -> "4" [] d = 5 -> "5" [] d = 6 -> "6" [] d = 7 -> "7"
              [] d = 8 -> "8" [] d = 9 -> "9"

RECURSIVE NumToStr(_)
NumToStr(n) == IF n < 10 THEN <<Digit(n)>>
               ELSE NumToStr(n \div 10) \o <<Digit(n % 10)>>

\* string literals of the source and of the inputs
WA == <<",", " ", "W", "A">>
Ballard == <<"B", "a", "l", "l", "a", "r", "d">>
Belltown == <<"B", "e", "l", "l", "t", "o", "w", "n">>
Brunch == <<"b", "r", "u", "n", "c", "h">>
Downtown == <<"4", "7", ".", "6", ",", "-", "1", "2", "2", ".", "3">>
GoogleKey == <<"G", "-", "k", "e", "y">>
FixieKey == <<"F", "-", "k", "e", "y">>
EvilKey == <<"e", "v", "i", "l">>
BlogA == <<"b", "l", "o", "g", "A">>
BlogB == <<"b", "l", "o", "g", "B">>

defaultSeattleCoordinates ==
  <<"4", "7", ".", "6", "0", "6", "2", ",",
    "-", "1", "2", "2", ".", "3", "3", "2", "1">>
defaultSearchRadius == 1000
seattleCorpusId == "1138"

-----------------------------------------------------------------------------
(* node:querystring                                                        *)

\* querystring.escape: unreserved characters stay, the others become %XX
\* (of the characters the inputs use, only the comma and the space)
QsEscapeChar(c) == CASE c = "," -> <<"%", "2", "C">>
                     [] c = " " -> <<"%", "2", "0">>
                     [] c = "%" -> <<"%", "2", "5">>
                     [] OTHER -> <<c>>
QsEscape(s) == Flatten([i \in 1..Len(s) |-> QsEscapeChar(s[i])])

\* stringifyPrimitive: strings as they are, numbers in decimal, all else ''
StringifyPrimitive(x) == CASE x.t = "string" -> x.v
                           [] x.t = "number" -> NumToStr(x.v)
                           [] OTHER -> <<>>

\* querystring.stringify(params): the name=value pairs in property order
QsStringify(names, params) ==
  [i \in 1..Len(names) |->
     [name |-> names[i], value |-> QsEscape(StringifyPrimitive(params[names[i]]))]]

\* what the receiving service decodes a value to
RECURSIVE QsUnescape(_)
QsUnescape(s) ==
  IF s = <<>> THEN <<>>
  ELSE IF Head(s) = "%" /\ Len(s) >= 3
       THEN (CASE <<s[2], s[3]>> = <<"2", "C">> -> <<",">>
               [] <<s[2], s[3]>> = <<"2", "0">> -> <<" ">>
               [] <<s[2], s[3]>> = <<"2", "5">> -> <<"%">>
               [] OTHER -> <<"?">>) \o QsUnescape(SubSeq(s, 4, Len(s)))
       ELSE <<Head(s)>> \o QsUnescape(Tail(s))

\* the decoded value of parameter name in a query string (absent: <<"?">>)
QsParam(search, name) ==
  IF \E i \in 1..Len(search) : search[i].name = name
  THEN QsUnescape(search[CHOOSE i \in 1..Len(search) : search[i].name = name].value)
  ELSE <<"?">>
QsNames(search) == {search[i].name : i \in 1..Len(search)}

-----------------------------------------------------------------------------
(* The outbound dependencies: what a service may answer.                   *)

NetErr == [kind |-> "neterr"]
Http(status, body) == [kind |-> "http", status |-> status, body |-> body]
NotJson == [t |-> "garbage"]

\* a mapping-service body: JSON with a status member
MapsBody(status) == Obj([status |-> status])
MapsResponses ==
  { Http(200, MapsBody(<<"O", "K">>)), Http(200, NotJson),
    Http(404, MapsBody(<<"N", "F">>)), Http(500, NotJson), NetErr }

\* chunks as the corpus service returns them; ChunkB outranks ChunkA
ChunkA == [content |-> <<"a", "a">>, metadata |-> Obj([source |-> Str(BlogA)]),
           document_name |-> Str(<<"d", "A">>), score |-> Num(1)]
ChunkB == [content |-> <<"b">>, metadata |-> Obj([source |-> Str(BlogB)]),
           document_name |-> Str(<<"d", "B">>), score |-> Num(2)]
ServiceChunks == {ChunkA, ChunkB}
ChunkLists == UNION {[1..n -> ServiceChunks] : n \in 0..MaxChunks}

FixieResponses ==
  { Http(200, Obj([chunks |-> cs])) : cs \in ChunkLists }
    \cup { Http(200, Obj(NoProps)), Http(200, NotJson), Http(201, Obj([chunks |-> <<>>])),
           Http(401, NotJson), Http(500, NotJson), NetErr }

\* errors
Raise(e, logs) == [outcome |-> "raised", error |-> e, logs |-> logs]
Return(v, logs) == [outcome |-> "returned", value |-> v, logs |-> logs]
ConfigError ==
  [name |-> "Error",
   message |-> "You must provide a Fixie API key to access Fixie corpora. Find yours at https://app.fixie.ai/profile."]
HTTPError(status) == [name |-> "HTTPError", status |-> status]
RequestError == [name |-> "RequestError"]
ParseError == [name |-> "ParseError"]
FixieStatusError(status) ==
  [name |-> "Error", message |-> "Fixie API returned status", status |-> status]
TypeError == [name |-> "TypeError"]

\* got: a response is an error unless its status is 2xx
GotStatusOk(status) == status >= 200 /\ status <= 299

\* await got(url).json(), and (await got(url, {json: true})).body alike:
\* the parsed body, or a rejection
GotJson(resp) ==
  IF resp.kind = "neterr" THEN [ok |-> FALSE, error |-> RequestError]
  ELSE IF ~GotStatusOk(resp.status) THEN [ok |-> FALSE, error |-> HTTPError(resp.status)]
  ELSE IF resp.body.t # "object" THEN [ok |-> FALSE, error |-> ParseError]
  ELSE [ok |-> TRUE, value |-> resp.body]

\* JSON.stringify of a mapping-service body: text, token by token
JsonStringify(x) ==
  Str(<<"{", "\"status\"", ":", "\"">> \o x.v.status \o <<"\"", "}">>)

\* JSON.stringify of an object literal: members whose value is undefined are left out
JsonBody(o) == [n \in {k \in DOMAIN o : ~IsUndefined(o[k])} |-> o[n]]

LogRecord(level, fields, msg) == [level |-> level, fields |-> fields, msg |-> msg]

-----------------------------------------------------------------------------
(* The mapping-service tools.                                              *)

PlaceSearchUrl == "https://maps.googleapis.com/maps/api/place/textsearch/json"
GeocodeUrl == "https://maps.googleapis.com/maps/api/geocode/json"
DirectionsUrl == "https://maps.googleapis.com/maps/api/directions/json"

\* process.env.GOOGLE_MAPS_API_KEY as the params object holds it
MapsKey == env.GOOGLE_MAPS_API_KEY

\* got(googleMapsApiUrl.toString()): one GET
MapsRequest(url, names, params) ==
  [service |-> "maps", method |-> "GET", url |-> url,
   search |-> QsStringify(names, params)]

\* a template literal's rendering of a value
TemplateStr(x) == CASE x.t = "string" -> x.v
                    [] x.t = "number" -> NumToStr(x.v)
                    [] OTHER -> <<"u", "n", "d", "e", "f", "i", "n", "e", "d">>

\* the suffix appended only where it is missing
ensurePlaceIsDescriptiveEnough_IfMissing(place) ==
  LET p == TemplateStr(place)
  IN  IF Len(p) >= 4 /\ SubSeq(p, Len(p) - 3, Len(p)) = WA THEN Str(p)
      ELSE Str(p \o WA)

ensurePlaceIsDescriptiveEnough(place) == Str(TemplateStr(place) \o WA)

\* which iterations normalize the places and log a failing directions call
Normalizes(v) == v \in {"route", "p2"}
\* which iterations serialize the response body before returning it
Serializes(v) == v # "p0"

\* the optional arguments passed on as supplied, without their defaults
searchForPlacesParams_NoDefaults(args) ==
  [query |-> Prop(args, "query"),
   location |-> Prop(args, "location"),
   radius |-> Prop(args, "searchRadius"),
   key |-> MapsKey]

\* the params object built by spreading the arguments over the credential
searchForPlacesParams_ArgsKey(args) ==
  [query |-> Prop(args, "query"),
   location |-> OrDefault(Prop(args, "location"), Str(defaultSeattleCoordinates)),
   radius |-> OrDefault(Prop(args, "searchRadius"), Num(defaultSearchRadius)),
   key |-> OrDefault(Prop(args, "key"), MapsKey)]

searchForPlacesParams(args) ==
  [query |-> Prop(args, "query"),
   location |-> OrDefault(Prop(args, "location"), Str(defaultSeattleCoordinates)),
   radius |-> OrDefault(Prop(args, "searchRadius"), Num(defaultSearchRadius)),
   key |-> MapsKey]

getLatLongOfLocationParams(args) ==
  [address |-> Prop(args, "location"), key |-> MapsKey]

getDirectionsParams(v, args) ==
  IF Normalizes(v)
  THEN [destination |-> ensurePlaceIsDescriptiveEnough(Prop(args, "destination")),
        origin |-> ensurePlaceIsDescriptiveEnough(Prop(args, "origin")),
        key |-> MapsKey]
  ELSE [destination |-> Prop(args, "destination"),
        origin |-> Prop(args, "origin"),
        key |-> MapsKey]

\* what each tool returns for a parsed body
ToolValue(v, body) == IF Serializes(v) THEN JsonStringify(body) ELSE body

PlaceSearchMsg(v) == IF v = "p0" THEN "Got response from google maps API"
                     ELSE "Got response from google maps place search API"
GeocodeMsg(v) == IF v = "p0" THEN "Got response from google maps API"
                 ELSE "Got response from google maps geocode API"
DirectionsMsg(v) == IF v = "p0" THEN "Got response from google maps API"
                    ELSE "Got response from google maps directions API"

\* searchForPlaces.func from the response on
searchForPlaces(v, args, resp) ==
  LET p == searchForPlacesParams(args)
      r == GotJson(resp)
  IN  IF r.ok
      THEN Return(ToolValue(v, r.value),
                  <<LogRecord("info",
                              [responseBody |-> r.value, query |-> p.query,
                               location |-> p.location, searchRadius |-> p.radius],
                              PlaceSearchMsg(v))>>)
      ELSE Raise(r.error, <<>>)

\* getLatLongOfLocation.func from the response on
getLatLongOfLocation(v, args, resp) ==
  LET r == GotJson(resp)
  IN  IF r.ok
      THEN Return(ToolValue(v, r.value),
                  <<LogRecord("info",
                              [responseBody |-> r.value, location |-> Prop(args, "location")],
                              GeocodeMsg(v))>>)
      ELSE Raise(r.error, <<>>)

\* a catch block that rethrows without logging
getDirectionsCatch_Silent(p, e) == Raise(e, <<>>)

\* the catch block of getDirections (route.tsx, part_002): log, then rethrow
getDirectionsCatch(p, e) ==
  Raise(e, <<LogRecord("error", [e |-> e] @@ Omit(p, "key"),
                       "Got error calling google maps directions API")>>)

\* getDirections.func from the response on
getDirections(v, args, resp) ==
  LET p == getDirectionsParams(v, args)
      r == GotJson(resp)
  IN  IF r.ok
      THEN Return(ToolValue(v, r.value),
                  <<LogRecord("info",
                              [responseBody |-> r.value] @@ Omit(p, "key"),
                              DirectionsMsg(v))>>)
      ELSE IF Normalizes(v) THEN getDirectionsCatch(p, r.error)
      ELSE Raise(r.error, <<>>)

-----------------------------------------------------------------------------
(* The corpus service: FixieCorpus and fixieFetch.                         *)

DEFAULT_FIXIE_API_URL == "https://app.fixie.ai/api"
FixieFetchBaseUrl == "https://app.fixie.ai/"

\* the POST both iterations build: bearer token and a JSON body
FixiePost(url, apiKey, body) ==
  [service |-> "fixie", method |-> "POST", url |-> url,
   headers |-> [ContentType |-> "application/json",
                Authorization |-> <<"Bearer ">> \o TemplateStr(apiKey)],
   body |-> body]

\* a constructor that does not check the credential
FixieCorpusNew_Unchecked(corpusId, fixieApiKey) ==
  [ok |-> TRUE,
   corpus |-> [corpusId |-> corpusId, fixieApiKey |-> env.FIXIE_API_KEY,
               fixieApiUrl |-> DEFAULT_FIXIE_API_URL]]

\* new FixieCorpus(corpusId, fixieApiKey?) of route.tsx: the object, or a throw
FixieCorpusNew(corpusId, fixieApiKey) ==
  LET key == IF ~Truthy(fixieApiKey) THEN env.FIXIE_API_KEY ELSE fixieApiKey
  IN  IF ~Truthy(key) THEN [ok |-> FALSE, error |-> ConfigError]
      ELSE [ok |-> TRUE,
            corpus |-> [corpusId |-> corpusId, fixieApiKey |-> key,
                        fixieApiUrl |-> DEFAULT_FIXIE_API_URL]]

\* new FixieCorpus(corpusId) of part_002: no credential is read
FixieCorpusNewP2(corpusId) ==
  [ok |-> TRUE, corpus |-> [corpusId |-> corpusId]]

\* the body of a search: JSON.stringify({query_string, chunk_limit, metadata_filter})
SearchBody(query, params) ==
  JsonBody([query_string |-> query,
            chunk_limit |-> Prop(params, "limit"),
            metadata_filter |-> Prop(params, "metadata_filter")])

\* fixieFetch up to its fetch: the credential is read, and checked, on every call
fixieFetchStart(pathname, body) ==
  LET apiKey == env.FIXIE_API_KEY
  IN  IF ~Truthy(apiKey) THEN [sent |-> FALSE, error |-> ConfigError]
      ELSE [sent |-> TRUE,
            wire |-> FixiePost(<<FixieFetchBaseUrl>> \o pathname, apiKey, body)]

\* a search that throws before its fetch
FixieSearchStart_Unsent(v, cp, query, params) ==
  [sent |-> FALSE, error |-> ConfigError]

\* FixieCorpus.search up to its fetch
FixieSearchStart(v, cp, query, params) ==
  IF v = "p2"
  THEN fixieFetchStart(<<"/api/corpora/", cp.corpusId, ":query">>,
                       SearchBody(query, params))
  ELSE [sent |-> TRUE,
        wire |-> FixiePost(<<cp.fixieApiUrl, "/corpora/", cp.corpusId, ":query">>,
                           cp.fixieApiKey, SearchBody(query, params))]

\* a status test that accepts every 2xx (response.ok)
FixieStatusOk_AnySuccess(status) == status >= 200 /\ status <= 299

\* the status test both iterations make on the response
FixieStatusOk(status) == status = 200

\* from the response to the parsed JSON, or a rejection
FixieJson(resp) ==
  IF resp.kind = "neterr" THEN [ok |-> FALSE, error |-> TypeError]
  ELSE IF ~FixieStatusOk(resp.status)
       THEN [ok |-> FALSE, error |-> FixieStatusError(resp.status)]
  ELSE IF resp.body.t # "object" THEN [ok |-> FALSE, error |-> ParseError]
  ELSE [ok |-> TRUE, value |-> resp.body]

\* the chunks cut to the first three (a local limit)
MapChunks_Cut(chunks) ==
  [i \in 1..(IF Len(chunks) > 3 THEN 3 ELSE Len(chunks)) |->
     [chunk |-> [content |-> chunks[i].content,
                 metadata |-> chunks[i].metadata,
                 documentName |-> chunks[i].document_name],
      score |-> chunks[i].score]]

\* apiResults.chunks.map(...): one scored chunk per chunk of the response
MapChunks(chunks) ==
  [i \in 1..Len(chunks) |->
     [chunk |-> [content |-> chunks[i].content,
                 metadata |-> chunks[i].metadata,
                 documentName |-> chunks[i].document_name],
      score |-> chunks[i].score]]

\* FixieCorpus.search from the response on
FixieSearchFinish(resp) ==
  LET r == FixieJson(resp)
  IN  IF ~r.ok THEN r
      ELSE IF "chunks" \notin DOMAIN r.value.v THEN [ok |-> FALSE, error |-> TypeError]
      ELSE [ok |-> TRUE, value |-> MapChunks(r.value.v.chunks)]

\* the pieces of a formatted chunk; [fence] stands for the three backquotes
\* of a Markdown fence, which a string of this language cannot hold
LabelTok == "Chunk from source: "
FenceOpenTok == "\n[fence]chunk \n"
FenceCloseTok == "\n[fence]\n"

\* doc.chunk.metadata?.source as the renderer prints it
SourceText(doc) ==
  IF doc.chunk.metadata.t = "object" /\ "source" \in DOMAIN doc.chunk.metadata.v
  THEN doc.chunk.metadata.v.source.v
  ELSE <<>>

ChunkFormatter(doc) ==
  <<"\n\n", LabelTok>> \o SourceText(doc) \o <<FenceOpenTok>>
     \o doc.chunk.content \o <<FenceCloseTok>>

\* the chunks rendered last to first
RenderChunks_Reversed(results) ==
  Str(Flatten([i \in 1..Len(results) |-> ChunkFormatter(results[Len(results) + 1 - i])]))

\* render(<>{results.map(chunk => <ChunkFormatter doc={chunk} />)}</>)
RenderChunks(results) ==
  Str(Flatten([i \in 1..Len(results) |-> ChunkFormatter(results[i])]))

\* the limit each iteration asks for
ChunkLimit(v) == IF v = "p2" THEN 2 ELSE 3

lookUpSeattleInfoStart(v, cp, args) ==
  FixieSearchStart(v, cp, Prop(args, "query"), [limit |-> Num(ChunkLimit(v))])

\* lookUpSeattleInfo.func from the response on
lookUpSeattleInfo(v, args, resp) ==
  LET r == FixieSearchFinish(resp)
  IN  IF r.ok
      THEN Return(RenderChunks(r.value),
                  <<LogRecord("info", [results |-> r.value, query |-> Prop(args, "query")],
                              "Got results from Fixie corpus search")>>)
      ELSE Raise(r.error, <<>>)

-----------------------------------------------------------------------------
(* The tool registry as the dispatcher sees it.                            *)

MapsTools == {"searchForPlaces", "getLatLongOfLocation", "getDirections"}
Tools(v) == IF v \in CorpusVariants THEN MapsTools \cup {"lookUpSeattleInfo"}
            ELSE MapsTools

\* a tool function up to its await: the outbound request, or an early throw
ToolStart(v, cp, tool, args) ==
  CASE tool = "searchForPlaces" ->
         [sent |-> TRUE,
          wire |-> MapsRequest(PlaceSearchUrl, <<"query", "location", "radius", "key">>,
                               searchForPlacesParams(args))]
    [] tool = "getLatLongOfLocation" ->
         [sent |-> TRUE,
          wire |-> MapsRequest(GeocodeUrl, <<"address", "key">>,
                               getLatLongOfLocationParams(args))]
    [] tool = "getDirections" ->
         [sent |-> TRUE,
          wire |-> MapsRequest(DirectionsUrl, <<"destination", "origin", "key">>,
                               getDirectionsParams(v, args))]
    [] tool = "lookUpSeattleInfo" -> lookUpSeattleInfoStart(v, cp, args)

\* a tool function from the response on: a return or a raise, and its log records
ToolFinish(v, tool, args, resp) ==
  CASE tool = "searchForPlaces" -> searchForPlaces(v, args, resp)
    [] tool = "getLatLongOfLocation" -> getLatLongOfLocation(v, args, resp)
    [] tool = "getDirections" -> getDirections(v, args, resp)
    [] tool = "lookUpSeattleInfo" -> lookUpSeattleInfo(v, args, resp)

Responses(tool) == IF tool = "lookUpSeattleInfo" THEN FixieResponses ELSE MapsResponses

-----------------------------------------------------------------------------
(* Inputs: configurations, conversations, and what the dispatcher supplies. *)

Envs ==
  [GOOGLE_MAPS_API_KEY : {Undefined, Str(GoogleKey)},
   FIXIE_API_KEY : {Undefined, Str(<<>>), Str(FixieKey)}]

Msg(role, content) == [role |-> role, content |-> content]
Conversations ==
  { <<>>,
    <<Msg("user", "how can I get from ballard to belltown?")>>,
    <<Msg("user", "how can I get from ballard to belltown?"),
      Msg("assistant", "Take the D line."),
      Msg("user", "what is the capital of France?")>> }

\* an optional argument: left out, or supplied with one of the values
Optional(name, values) == {NoProps} \cup {name :> x : x \in values}

SearchArgs ==
  { ("query" :> Str(Brunch)) @@ l @@ s @@ k :
      l \in Optional("location", {Str(<<>>), Str(Downtown)}),
      s \in Optional("searchRadius", {Num(0), Num(500)}),
      k \in Optional("key", {Str(EvilKey)}) }
GeocodeArgs ==
  { ("location" :> Str(p)) @@ k :
      p \in {Ballard, Ballard \o WA}, k \in Optional("key", {Str(EvilKey)}) }
DirectionsArgs ==
  { ("origin" :> Str(o)) @@ ("destination" :> Str(d)) @@ k :
      o \in {Ballard, Ballard \o WA}, d \in {Belltown},
      k \in Optional("key", {Str(EvilKey)}) }
LookupArgs ==
  { ("query" :> Str(Brunch)) @@ k : k \in Optional("key", {Str(EvilKey)}) }

ArgsOf(tool) == CASE tool = "searchForPlaces" -> SearchArgs
                  [] tool = "getLatLongOfLocation" -> GeocodeArgs
                  [] tool = "getDirections" -> DirectionsArgs
                  [] tool = "lookUpSeattleInfo" -> LookupArgs

\* the corpora-metadata (GraphQL) request of part_002 and its answers
GraphqlBody == "query { agentById(agentId: ben2/SeattleSidekick) ... corpora ... urls }"
ModuleResponses == {Http(200, Obj([data |-> "corpora"])), Http(500, NotJson), NetErr}

\* the fallback prop each iteration gives UseTools
Fallback(v) == IF v = "p1" THEN "Tell the user there was an error making the request."
               ELSE ""

NoInv == [tool |-> "none", state |-> "none"]
NoAug == [kind |-> "none", text |-> ""]
NoErr == [name |-> "none"]
NoCorpus == [corpusId |-> "none"]
Routes == {"directions", "places", "unmatched"}

-----------------------------------------------------------------------------
(* The state machine.                                                      *)

InitWith(open) ==
  /\ variant \in Variants
  /\ env \in Envs
  /\ coporaPromise = IF variant = "p2" THEN [state |-> "unloaded"] ELSE [state |-> "absent"]
  /\ moduleSent = <<>>
  /\ handled = 0
  /\ pc = [r \in Requests |-> IF r \in open THEN "idle" ELSE "closed"]
  /\ messages = [r \in Requests |-> <<>>]
  /\ route = [r \in Requests |-> "none"]
  /\ inv = [r \in Requests |-> NoInv]
  /\ nCalls = [r \in Requests |-> 0]
  /\ nSent = [r \in Requests |-> 0]
  /\ aug = [r \in Requests |-> NoAug]
  /\ err = [r \in Requests |-> NoErr]
  /\ corpus = [r \in Requests |-> NoCorpus]
  /\ latestQuery = [r \in Requests |-> ""]
  /\ connected = [r \in Requests |-> FALSE]

\* the process serves its requests one after the other through one open slot
Init == InitWith({"r1"})

\* part_002: evaluating the module starts fixieFetch('/graphql', ...)
LoadModule ==
  /\ coporaPromise.state = "unloaded"
  /\ LET start == fixieFetchStart(<<"/graphql">>, GraphqlBody)
     IN  IF start.sent
         THEN /\ coporaPromise' = [state |-> "pending"]
              /\ moduleSent' = Append(moduleSent, start.wire)
         ELSE /\ coporaPromise' = [state |-> "rejected", error |-> start.error]
              /\ UNCHANGED moduleSent
  /\ UNCHANGED <<variant, env, handled, pc, messages, route, inv, nCalls, nSent,
                 aug, err, corpus, latestQuery,
                 connected>>

\* part_002: the corpora-metadata request is answered, fixieFetch settles
ModuleReply(resp) ==
  /\ coporaPromise.state = "pending"
  /\ LET r == FixieJson(resp)
     IN  coporaPromise' = IF r.ok THEN [state |-> "resolved", value |-> r.value]
                          ELSE [state |-> "rejected", error |-> r.error]
  /\ UNCHANGED <<variant, env, moduleSent, handled, pc, messages, route, inv, nCalls,
                 nSent, aug, err, corpus, latestQuery,
                 connected>>

\* POST: the body is read and <App messages={messages} /> handed to the renderer
Post(r, msgs) ==
  /\ pc[r] \in {"idle", "replied", "aborted"}
  /\ coporaPromise.state # "unloaded"
  /\ handled < MaxRequests
  /\ handled' = handled + 1
  /\ pc' = [pc EXCEPT ![r] = "app"]
  /\ messages' = [messages EXCEPT ![r] = msgs]
  /\ route' = [route EXCEPT ![r] = "none"]
  /\ inv' = [inv EXCEPT ![r] = NoInv]
  /\ nCalls' = [nCalls EXCEPT ![r] = 0]
  /\ nSent' = [nSent EXCEPT ![r] = 0]
  /\ aug' = [aug EXCEPT ![r] = NoAug]
  /\ err' = [err EXCEPT ![r] = NoErr]
  /\ corpus' = [corpus EXCEPT ![r] = NoCorpus]
  /\ latestQuery' = [latestQuery EXCEPT ![r] = ""]
  /\ connected' = [connected EXCEPT ![r] = TRUE]
  /\ UNCHANGED <<variant, env, coporaPromise, moduleSent>>

\* an App that does not look at the outcome of coporaPromise
AppBody_NoAwait(v, msgs) ==
  CASE v = "route" ->
         LET c == FixieCorpusNew(seattleCorpusId, Undefined)
         IN  IF c.ok THEN [ok |-> TRUE, corpus |-> c.corpus, query |-> "", next |-> "tools"]
             ELSE [ok |-> FALSE, error |-> c.error]
    [] v = "p2" ->
         [ok |-> TRUE, corpus |-> FixieCorpusNewP2(seattleCorpusId).corpus,
          query |-> "", next |-> "tools"]
    [] OTHER ->
         IF msgs = <<>> THEN [ok |-> FALSE, error |-> TypeError]
         ELSE [ok |-> TRUE, corpus |-> NoCorpus, query |-> msgs[Len(msgs)].content,
               next |-> "routing"]

\* an App that takes the first message of the conversation for the query
AppBody_FirstMessage(v, msgs) ==
  CASE v = "route" ->
         LET c == FixieCorpusNew(seattleCorpusId, Undefined)
         IN  IF c.ok THEN [ok |-> TRUE, corpus |-> c.corpus, query |-> "", next |-> "tools"]
             ELSE [ok |-> FALSE, error |-> c.error]
    [] v = "p2" ->
         IF coporaPromise.state = "rejected"
         THEN [ok |-> FALSE, error |-> coporaPromise.error]
         ELSE [ok |-> TRUE, corpus |-> FixieCorpusNewP2(seattleCorpusId).corpus,
               query |-> "", next |-> "tools"]
    [] OTHER ->
         IF msgs = <<>> THEN [ok |-> FALSE, error |-> TypeError]
         ELSE [ok |-> TRUE, corpus |-> NoCorpus, query |-> msgs[1].content,
               next |-> "routing"]

\* what App's body computes before it returns its element: the corpus object and
\* the latest message's content, or the error it throws
AppBody(v, msgs) ==
  CASE v = "route" ->
         LET c == FixieCorpusNew(seattleCorpusId, Undefined)
         IN  IF c.ok THEN [ok |-> TRUE, corpus |-> c.corpus, query |-> "", next |-> "tools"]
             ELSE [ok |-> FALSE, error |-> c.error]
    [] v = "p2" ->
         IF coporaPromise.state = "rejected"
         THEN [ok |-> FALSE, error |-> coporaPromise.error]
         ELSE [ok |-> TRUE, corpus |-> FixieCorpusNewP2(seattleCorpusId).corpus,
               query |-> "", next |-> "tools"]
    [] OTHER ->
         IF msgs = <<>> THEN [ok |-> FALSE, error |-> TypeError]
         ELSE [ok |-> TRUE, corpus |-> NoCorpus, query |-> msgs[Len(msgs)].content,
               next |-> "routing"]

\* App is rendered (part_002: once coporaPromise has settled)
RenderApp(r) ==
  /\ pc[r] = "app"
  /\ variant = "p2" => coporaPromise.state \in {"resolved", "rejected"}
  /\ LET a == AppBody(variant, messages[r])
     IN  IF a.ok
         THEN /\ pc' = [pc EXCEPT ![r] = a.next]
              /\ corpus' = [corpus EXCEPT ![r] = a.corpus]
              /\ latestQuery' = [latestQuery EXCEPT ![r] = a.query]
              /\ UNCHANGED err
         ELSE /\ pc' = [pc EXCEPT ![r] = "aborted"]
              /\ err' = [err EXCEPT ![r] = a.error]
              /\ UNCHANGED <<corpus, latestQuery>>
  /\ UNCHANGED <<variant, env, coporaPromise, moduleSent, handled, messages, route,
                 inv, nCalls, nSent, aug, connected>>

\* an unmatched route that renders UseTools like the others
RouteRenders_Always(choice) == "UseTools"

\* what a route of the NaturalLanguageRouter renders: UseTools, or nothing
RouteRenders(choice) == IF choice = "unmatched" THEN "nothing" ELSE "UseTools"

\* part_000, part_001: the router picks a route for the query
RouteQuery(r, choice) ==
  /\ pc[r] = "routing"
  /\ route' = [route EXCEPT ![r] = choice]
  /\ pc' = [pc EXCEPT ![r] = IF RouteRenders(choice) = "UseTools" THEN "tools"
                             ELSE "complete"]
  /\ UNCHANGED <<variant, env, coporaPromise, moduleSent, handled, messages, inv,
                 nCalls, nSent, aug, err, corpus, latestQuery,
                 connected>>

\* the dispatcher invokes a tool of the registry: the function runs to its await
InvokeTool(r, tool, args) ==
  /\ pc[r] = "tools"
  /\ nCalls[r] < MaxCalls
  /\ tool \in Tools(variant)
  /\ nCalls' = [nCalls EXCEPT ![r] = @ + 1]
  /\ LET start == ToolStart(variant, corpus[r], tool, args)
     IN  IF start.sent
         THEN /\ inv' = [inv EXCEPT ![r] = [tool |-> tool, args |-> args,
                                            state |-> "pending", wire |-> start.wire]]
              /\ nSent' = [nSent EXCEPT ![r] = @ + 1]
              /\ pc' = [pc EXCEPT ![r] = "calling"]
         ELSE /\ inv' = [inv EXCEPT ![r] = [tool |-> tool, args |-> args,
                                            state |-> "settled", sent |-> FALSE,
                                            result |-> Raise(start.error, <<>>)]]
              /\ UNCHANGED nSent
              /\ pc' = [pc EXCEPT ![r] = "settled"]
  /\ UNCHANGED <<variant, env, coporaPromise, moduleSent, handled, messages, route,
                 aug, err, corpus, latestQuery,
                 connected>>

\* an outstanding call that a timeout ends without any answer
ToolResponds_Timeout(r, resp) ==
  /\ pc[r] = "calling"
  /\ resp \in Responses(inv[r].tool)
  /\ inv' = [inv EXCEPT ![r] = [tool |-> inv[r].tool, args |-> inv[r].args,
                                state |-> "settled", sent |-> TRUE,
                                wire |-> inv[r].wire,
                                result |-> Raise([name |-> "TimeoutError"], <<>>)]]
  /\ pc' = [pc EXCEPT ![r] = "settled"]
  /\ UNCHANGED <<variant, env, coporaPromise, moduleSent, handled, messages, route,
                 nCalls, nSent, aug, err, corpus, latestQuery, connected>>

\* the service answers (or the transport fails): the function runs to its end
ToolResponds(r, resp) ==
  /\ pc[r] = "calling"
  /\ resp \in Responses(inv[r].tool)
  /\ inv' = [inv EXCEPT ![r] = [tool |-> inv[r].tool, args |-> inv[r].args,
                                state |-> "settled", sent |-> TRUE,
                                wire |-> inv[r].wire, resp |-> resp,
                                result |-> ToolFinish(variant, inv[r].tool,
                                                      inv[r].args, resp)]]
  /\ pc' = [pc EXCEPT ![r] = "settled"]
  /\ UNCHANGED <<variant, env, coporaPromise, moduleSent, handled, messages, route,
                 nCalls, nSent, aug, err, corpus, latestQuery,
                 connected>>

\* what UseTools may do with a tool function that raised. UseTools belongs
\* to the framework, whose code the repository does not hold: it either puts
\* its fallback prop in the place of the result, or lets the error through
UseToolsOnFailure == {"fallback", "propagate"}

\* UseTools takes the outcome: a result goes into the context; a failure is
\* replaced by the fallback prop, or ends the rendering with the error
ToolSettled(r, handling) ==
  /\ pc[r] = "settled"
  /\ IF inv[r].result.outcome = "returned"
     THEN /\ aug' = [aug EXCEPT ![r] = [kind |-> "tool", text |-> ""]]
          /\ pc' = [pc EXCEPT ![r] = "tools"]
          /\ UNCHANGED err
     ELSE IF handling = "fallback"
          THEN /\ aug' = [aug EXCEPT ![r] = [kind |-> "fallback",
                                             text |-> Fallback(variant)]]
               /\ pc' = [pc EXCEPT ![r] = "complete"]
               /\ UNCHANGED err
          ELSE /\ pc' = [pc EXCEPT ![r] = "aborted"]
               /\ err' = [err EXCEPT ![r] = inv[r].result.error]
               /\ UNCHANGED aug
  /\ inv' = [inv EXCEPT ![r] = NoInv]
  /\ UNCHANGED <<variant, env, coporaPromise, moduleSent, handled, messages, route,
                 nCalls, nSent, corpus, latestQuery,
                 connected>>

\* the dispatcher asks for no (further) tool
NoMoreTools(r) ==
  /\ pc[r] = "tools"
  /\ pc' = [pc EXCEPT ![r] = "complete"]
  /\ UNCHANGED <<variant, env, coporaPromise, moduleSent, handled, messages, route,
                 inv, nCalls, nSent, aug, err, corpus, latestQuery,
                 connected>>

\* the completion is streamed back
Reply(r) ==
  /\ pc[r] = "complete"
  /\ pc' = [pc EXCEPT ![r] = "replied"]
  /\ UNCHANGED <<variant, env, coporaPromise, moduleSent, handled, messages, route,
                 inv, nCalls, nSent, aug, err, corpus, latestQuery,
                 connected>>

\* the client goes away while its request is handled: POST hands the stream
\* to the response and registers nothing on the request's abort signal, so
\* the rendering and its outstanding call go on as they were
ClientDisconnects(r) ==
  /\ pc[r] \in {"app", "routing", "tools", "calling", "settled", "complete"}
  /\ connected[r]
  /\ connected' = [connected EXCEPT ![r] = FALSE]
  /\ UNCHANGED <<variant, env, coporaPromise, moduleSent, handled, pc, messages, route,
                 inv, nCalls, nSent, aug, err, corpus, latestQuery>>

Next ==
  \/ LoadModule
  \/ \E resp \in ModuleResponses : ModuleReply(resp)
  \/ \E r \in Requests, msgs \in Conversations : Post(r, msgs)
  \/ \E r \in Requests : RenderApp(r)
  \/ \E r \in Requests, choice \in Routes : RouteQuery(r, choice)
  \/ \E r \in Requests, tool \in MapsTools \cup {"lookUpSeattleInfo"} :
       \E args \in ArgsOf(tool) : InvokeTool(r, tool, args)
  \/ \E r \in Requests, resp \in MapsResponses \cup FixieResponses : ToolResponds(r, resp)
  \/ \E r \in Requests, handling \in UseToolsOnFailure : ToolSettled(r, handling)
  \/ \E r \in Requests : NoMoreTools(r)
  \/ \E r \in Requests : Reply(r)
  \/ \E r \in Requests : ClientDisconnects(r)

Spec == Init /\ [][Next]_vars

-----------------------------------------------------------------------------
(* Two requests in flight at once.  The handler is the same; the inputs    *)
(* are fewer, so that every interleaving of the two requests is explored.  *)

ConcConversations ==
  { <<Msg("user", "how can I get from ballard to belltown?")>> }
ConcArgs(tool) ==
  CASE tool = "searchForPlaces" -> {"query" :> Str(Brunch)}
    [] tool = "getLatLongOfLocation" -> {"location" :> Str(Ballard)}
    [] tool = "getDirections" ->
         {("origin" :> Str(Ballard)) @@ ("destination" :> Str(Belltown))}
    [] tool = "lookUpSeattleInfo" -> {"query" :> Str(Brunch)}
ConcResponses(tool) ==
  IF tool = "lookUpSeattleInfo"
  THEN {Http(200, Obj([chunks |-> <<ChunkA>>])), Http(500, NotJson)}
  ELSE {Http(200, MapsBody(<<"O", "K">>)), NetErr}

\* both request slots are open from the start
InitConc == InitWith(Requests)

NextConc ==
  \/ LoadModule
  \/ \E resp \in ModuleResponses : ModuleReply(resp)
  \/ \E r \in Requests, msgs \in ConcConversations : Post(r, msgs)
  \/ \E r \in Requests : RenderApp(r)
  \/ \E r \in Requests, choice \in Routes : RouteQuery(r, choice)
  \/ \E r \in Requests, tool \in MapsTools \cup {"lookUpSeattleInfo"} :
       \E args \in ConcArgs(tool) : InvokeTool(r, tool, args)
  \/ \E r \in Requests : \E resp \in ConcResponses(inv[r].tool) : ToolResponds(r, resp)
  \/ \E r \in Requests, handling \in UseToolsOnFailure : ToolSettled(r, handling)
  \/ \E r \in Requests : NoMoreTools(r)
  \/ \E r \in Requests : Reply(r)

SpecConc == InitConc /\ [][NextConc]_vars

-----------------------------------------------------------------------------
(* Properties.                                                             *)

\* the invocations that have issued their outbound request
Issued(r) == inv[r].state = "pending" \/ (inv[r].state = "settled" /\ inv[r].sent)
\* the invocations whose tool function has ended
Settled(r) == inv[r].state = "settled"
Answered(r) == Settled(r) /\ inv[r].sent
OnMaps(r) == Issued(r) /\ inv[r].wire.service = "maps"
OnFixie(r) == Issued(r) /\ inv[r].wire.service = "fixie"

\* a failed exchange: the transport failed, or the status is not a success
\* (for the corpus service: is not 200)
FailedExchange(tool, resp) ==
  \/ resp.kind = "neterr"
  \/ resp.kind = "http" /\ tool = "lookUpSeattleInfo" /\ resp.status # 200
  \/ resp.kind = "http" /\ tool # "lookUpSeattleInfo"
       /\ (resp.status < 200 \/ resp.status > 299)

\* C1: in every iteration, a tool function whose outbound request met a
\* non-success status (for corpus search: any status but 200) or a transport
\* failure ends by raising; it returns no value.
C1_FailureRaises ==
  \A r \in Requests :
    (Answered(r) /\ FailedExchange(inv[r].tool, inv[r].resp))
      => /\ inv[r].result.outcome = "raised"
         /\ "value" \notin DOMAIN inv[r].result

\* a corpus search answered 201 has raised
C1_Witness ==
  \E r \in Requests :
    /\ Answered(r) /\ inv[r].tool = "lookUpSeattleInfo"
    /\ inv[r].resp.kind = "http" /\ inv[r].resp.status = 201
    /\ inv[r].result.outcome = "raised"

\* whether the dispatcher left an argument out
Omitted(args, name) == name \notin DOMAIN args

\* C2: with the required arguments supplied, the outbound request carries
\* each of them (query; address; origin and destination), and searchForPlaces
\* sends radius 1000 for an omitted searchRadius and location
\* 47.6062,-122.3321 for an omitted location.
C2_RequiredAndDefaults ==
  \A r \in Requests :
    OnMaps(r) =>
      LET a == inv[r].args
          q == inv[r].wire.search
      IN  /\ inv[r].tool = "searchForPlaces" =>
               /\ QsNames(q) = {"query", "location", "radius", "key"}
               /\ QsParam(q, "query") = a.query.v
               /\ Omitted(a, "searchRadius") =>
                    QsParam(q, "radius") = <<"1", "0", "0", "0">>
               /\ Omitted(a, "location") =>
                    QsParam(q, "location") =
                      <<"4", "7", ".", "6", "0", "6", "2", ",",
                        "-", "1", "2", "2", ".", "3", "3", "2", "1">>
          /\ inv[r].tool = "getLatLongOfLocation" =>
               /\ QsNames(q) = {"address", "key"}
               /\ QsParam(q, "address") = a.location.v
          /\ inv[r].tool = "getDirections" =>
               /\ QsNames(q) = {"destination", "origin", "key"}
               /\ SubSeq(QsParam(q, "origin"), 1, Len(a.origin.v)) = a.origin.v
               /\ SubSeq(QsParam(q, "destination"), 1, Len(a.destination.v))
                    = a.destination.v

\* a place search with both optional arguments left out is on the wire
C2_Witness ==
  \E r \in Requests :
    /\ OnMaps(r) /\ inv[r].tool = "searchForPlaces"
    /\ Omitted(inv[r].args, "searchRadius") /\ Omitted(inv[r].args, "location")
    /\ QsParam(inv[r].wire.search, "radius") = <<"1", "0", "0", "0">>

\* the credential as the configuration holds it ('' when it is not set)
ConfiguredMapsKey == IF env.GOOGLE_MAPS_API_KEY.t = "string"
                     THEN env.GOOGLE_MAPS_API_KEY.v ELSE <<>>

\* C3: in every outbound request the credential is the configured one: the
\* key parameter of a mapping-service request and the bearer token of a
\* corpus-service request come from process.env, whatever the dispatcher
\* supplies (an argument named key included), and no built-in value is sent.
C3_CredentialFromConfig ==
  /\ \A r \in Requests :
       /\ OnMaps(r) =>
            /\ Cardinality({i \in 1..Len(inv[r].wire.search) :
                              inv[r].wire.search[i].name = "key"}) = 1
            /\ QsParam(inv[r].wire.search, "key") = ConfiguredMapsKey
       /\ OnFixie(r) =>
            /\ env.FIXIE_API_KEY.t = "string"
            /\ inv[r].wire.headers.Authorization = <<"Bearer ">> \o env.FIXIE_API_KEY.v
  /\ \A i \in 1..Len(moduleSent) :
       /\ env.FIXIE_API_KEY.t = "string"
       /\ moduleSent[i].headers.Authorization = <<"Bearer ">> \o env.FIXIE_API_KEY.v

\* the dispatcher supplied its own key, and the configured one went out
C3_Witness ==
  \E r \in Requests :
    /\ OnMaps(r) /\ "key" \in DOMAIN inv[r].args
    /\ QsParam(inv[r].wire.search, "key") = <<"G", "-", "k", "e", "y">>

\* C4: with a required credential absent from the configuration, no outbound
\* request goes to the service that needs it (the first use throws instead).
C4_NoRequestWithoutCredential ==
  \A r \in Requests :
    /\ OnMaps(r) => Truthy(env.GOOGLE_MAPS_API_KEY)
    /\ OnFixie(r) => Truthy(env.FIXIE_API_KEY)

\* C5: every tool invocation issues exactly one outbound request, whether it
\* returns or raises: the requests issued for a request are as many as the
\* invocations started (none is skipped or served from a cache, none is sent
\* again after a failure).
C5_OneRequestPerInvocation ==
  \A r \in Requests :
    /\ nSent[r] = nCalls[r]
    /\ inv[r].state \in {"pending", "settled"} => Issued(r)

\* a second invocation for the same request has issued a second request and failed
C5_Witness ==
  \E r \in Requests :
    /\ nCalls[r] = 2 /\ nSent[r] = 2
    /\ Answered(r) /\ inv[r].result.outcome = "raised"

\* C6: in the iterations that normalize places, the directions request holds
\* origin = <origin argument> + ', WA' and destination = <destination
\* argument> + ', WA', also when the argument already ends in ', WA'; the two
\* are not swapped.
C6_AppendsWA ==
  \A r \in Requests :
    (OnMaps(r) /\ inv[r].tool = "getDirections" /\ variant \in {"route", "p2"})
      => /\ QsParam(inv[r].wire.search, "origin")
              = inv[r].args.origin.v \o <<",", " ", "W", "A">>
         /\ QsParam(inv[r].wire.search, "destination")
              = inv[r].args.destination.v \o <<",", " ", "W", "A">>

\* an origin that already ends in ', WA' went out with the suffix twice
C6_Witness ==
  \E r \in Requests :
    /\ OnMaps(r) /\ inv[r].tool = "getDirections" /\ variant \in {"route", "p2"}
    /\ inv[r].args.origin.v = <<"B", "a", "l", "l", "a", "r", "d", ",", " ", "W", "A">>
    /\ QsParam(inv[r].wire.search, "origin")
         = <<"B", "a", "l", "l", "a", "r", "d", ",", " ", "W", "A", ",", " ", "W", "A">>
    /\ QsParam(inv[r].wire.search, "destination")
         = <<"B", "e", "l", "l", "t", "o", "w", "n", ",", " ", "W", "A">>

\* the positions of a token in a text, and the k-th of them
Positions(txt, tok) == {i \in 1..Len(txt) : txt[i] = tok}
Kth(ps, k) == CHOOSE p \in ps : Cardinality({q \in ps : q < p}) = k - 1

\* the block of chunk c starts at the label at position p of txt
BlockAt(txt, p, c) ==
  LET src == c.metadata.v.source.v
      open == p + Len(src) + 1
      close == open + Len(c.content) + 1
  IN  /\ close <= Len(txt)
      /\ SubSeq(txt, p + 1, p + Len(src)) = src
      /\ txt[open] = FenceOpenTok
      /\ SubSeq(txt, open + 1, close - 1) = c.content
      /\ txt[close] = FenceCloseTok

\* C7: the text lookUpSeattleInfo returns holds one block per chunk of the
\* response, in the response's order: the label 'Chunk from source: ' with the
\* chunk's source, then a fenced block with the chunk's content.
C7_OneBlockPerChunk ==
  \A r \in Requests :
    (Answered(r) /\ inv[r].tool = "lookUpSeattleInfo"
       /\ inv[r].result.outcome = "returned")
      => LET cs == inv[r].resp.body.v.chunks
             txt == inv[r].result.value.v
             labels == Positions(txt, LabelTok)
         IN  /\ inv[r].result.value.t = "string"
             /\ Cardinality(labels) = Len(cs)
             /\ Cardinality(Positions(txt, FenceOpenTok)) = Len(cs)
             /\ Cardinality(Positions(txt, FenceCloseTok)) = Len(cs)
             /\ \A k \in 1..Len(cs) : BlockAt(txt, Kth(labels, k), cs[k])

\* the service returned blogA's chunk then blogB's, and the text was returned
C7_Witness ==
  \E r \in Requests :
    /\ Answered(r) /\ inv[r].tool = "lookUpSeattleInfo"
    /\ inv[r].result.outcome = "returned"
    /\ inv[r].resp.body.v.chunks = <<ChunkA, ChunkB>>
    /\ Cardinality(Positions(inv[r].result.value.v, LabelTok)) = 2

\* C8: a request for which no route matches (router iterations) or for which
\* the dispatcher picks no tool invokes no tool function, adds nothing to the
\* context and issues no outbound request.
C8_UnmatchedIsSilent ==
  \A r \in Requests :
    /\ route[r] = "unmatched" => nCalls[r] = 0
    /\ nCalls[r] = 0 => /\ nSent[r] = 0
                        /\ aug[r].kind = "none"
                        /\ inv[r] = NoInv

\* a request the router matched to no route has been replied to
C8_Witness ==
  \E r \in Requests :
    /\ route[r] = "unmatched" /\ pc[r] = "replied"
    /\ nSent[r] = 0 /\ aug[r].kind = "none"

\* C9: FixieCorpus.search issues a bearer-authenticated POST whose body is the
\* JSON of {query_string, chunk_limit, metadata_filter} (the filter, which the
\* tool leaves undefined, has no member in the JSON), and returns one record
\* per chunk of the response, in order, with that chunk's content, metadata,
\* document_name and score: nothing is dropped, reordered or cut to the limit.
C9_SearchMapsEveryChunk ==
  \A r \in Requests :
    (OnFixie(r) /\ inv[r].tool = "lookUpSeattleInfo")
      => /\ inv[r].wire.method = "POST"
         /\ inv[r].wire.headers.Authorization = <<"Bearer ">> \o env.FIXIE_API_KEY.v
         /\ DOMAIN inv[r].wire.body = {"query_string", "chunk_limit"}
         /\ inv[r].wire.body.query_string = inv[r].args.query
         /\ inv[r].wire.body.chunk_limit.v = (IF variant = "p2" THEN 2 ELSE 3)
         /\ (Settled(r) /\ inv[r].result.outcome = "returned") =>
              LET cs == inv[r].resp.body.v.chunks
                  res == inv[r].result.logs[1].fields.results
              IN  /\ Len(res) = Len(cs)
                  /\ \A i \in 1..Len(cs) :
                       /\ res[i].chunk.content = cs[i].content
                       /\ res[i].chunk.metadata = cs[i].metadata
                       /\ res[i].chunk.documentName = cs[i].document_name
                       /\ res[i].score = cs[i].score

\* the service returned more chunks than the limit asked for, and all came back
C9_Witness ==
  \E r \in Requests :
    /\ Answered(r) /\ inv[r].tool = "lookUpSeattleInfo"
    /\ inv[r].result.outcome = "returned"
    /\ Len(inv[r].resp.body.v.chunks) > inv[r].wire.body.chunk_limit.v
    /\ Len(inv[r].result.logs[1].fields.results) = Len(inv[r].resp.body.v.chunks)

\* C10: whatever a tool function returns on success is text.
C10_ReturnsText ==
  \A r \in Requests :
    (Settled(r) /\ inv[r].result.outcome = "returned")
      => inv[r].result.value.t = "string"

\* the log records an ended invocation has emitted
Logs(r) == inv[r].result.logs

\* a record holds a credential: a member named key, or a text member whose
\* value is the mapping-service or the corpus-service credential
HoldsCredential(rec) ==
  \/ "key" \in DOMAIN rec.fields
  \/ \E f \in (DOMAIN rec.fields) \ {"responseBody", "results", "e"} :
       /\ rec.fields[f].t = "string"
       /\ \/ Truthy(env.GOOGLE_MAPS_API_KEY) /\ rec.fields[f].v = env.GOOGLE_MAPS_API_KEY.v
          \/ Truthy(env.FIXIE_API_KEY) /\ rec.fields[f].v = env.FIXIE_API_KEY.v

\* a record holds the response of the invocation of r
HoldsResponse(r, rec) ==
  IF inv[r].tool = "lookUpSeattleInfo"
  THEN /\ "results" \in DOMAIN rec.fields
       /\ inv[r].sent /\ inv[r].resp.kind = "http" /\ inv[r].resp.body.t = "object"
       /\ "chunks" \in DOMAIN inv[r].resp.body.v
       /\ Len(rec.fields.results) = Len(inv[r].resp.body.v.chunks)
       /\ \A i \in 1..Len(rec.fields.results) :
            rec.fields.results[i].chunk.content = inv[r].resp.body.v.chunks[i].content
  ELSE /\ "responseBody" \in DOMAIN rec.fields
       /\ inv[r].sent /\ inv[r].resp.kind = "http"
       /\ rec.fields.responseBody = inv[r].resp.body

\* a record holds the arguments of the invocation of r (the optional ones
\* with a value, the places as they were sent)
HoldsArguments(r, rec) ==
  LET a == inv[r].args
      f == rec.fields
  IN  CASE inv[r].tool = "searchForPlaces" ->
             /\ {"query", "location", "searchRadius"} \subseteq DOMAIN f
             /\ f.query = a.query
             /\ ~Omitted(a, "location") => f.location = a.location
             /\ ~Omitted(a, "searchRadius") => f.searchRadius = a.searchRadius
        [] inv[r].tool = "getLatLongOfLocation" ->
             "location" \in DOMAIN f /\ f.location = a.location
        [] inv[r].tool = "getDirections" ->
             /\ {"origin", "destination"} \subseteq DOMAIN f
             /\ SubSeq(f.origin.v, 1, Len(a.origin.v)) = a.origin.v
             /\ SubSeq(f.destination.v, 1, Len(a.destination.v)) = a.destination.v
        [] inv[r].tool = "lookUpSeattleInfo" ->
             "query" \in DOMAIN f /\ f.query = a.query

\* C11 as stated: every tool function call, failing or not, has emitted
\* exactly one log record when it ends, and that record holds the response and
\* the arguments and no credential.
C11_OneRecordPerCall ==
  \A r \in Requests :
    Settled(r) =>
      /\ Len(Logs(r)) = 1
      /\ HoldsResponse(r, Logs(r)[1])
      /\ HoldsArguments(r, Logs(r)[1])
      /\ ~HoldsCredential(Logs(r)[1])

\* C11: every tool function call that returns has emitted exactly one log
\* record, of level info, holding the response and the arguments; a call that
\* raises has emitted no record holding a response (at most one record at
\* all); and no record of any call, returning or raising, holds a credential.
C11_OneRecordPerSuccess ==
  \A r \in Requests :
    Settled(r) =>
      /\ inv[r].result.outcome = "returned" =>
           /\ Len(Logs(r)) = 1
           /\ Logs(r)[1].level = "info"
           /\ HoldsResponse(r, Logs(r)[1])
           /\ HoldsArguments(r, Logs(r)[1])
      /\ inv[r].result.outcome = "raised" =>
           /\ Len(Logs(r)) <= 1
           /\ \A i \in 1..Len(Logs(r)) :
                DOMAIN Logs(r)[i].fields \cap {"responseBody", "results"} = {}
      /\ \A i \in 1..Len(Logs(r)) : ~HoldsCredential(Logs(r)[i])

\* a directions call made with the credential configured has returned, and
\* its one record holds the response and the places, not the key
C11_Witness ==
  \E r \in Requests :
    /\ Settled(r) /\ inv[r].tool = "getDirections"
    /\ Truthy(env.GOOGLE_MAPS_API_KEY)
    /\ inv[r].result.outcome = "returned"
    /\ Len(Logs(r)) = 1
    /\ DOMAIN Logs(r)[1].fields = {"responseBody", "origin", "destination"}

\* the error got rejects with for a failed exchange
ErrorOf(resp) ==
  IF resp.kind = "neterr" THEN [name |-> "RequestError"]
  ELSE IF resp.status < 200 \/ resp.status > 299
       THEN [name |-> "HTTPError", status |-> resp.status]
  ELSE [name |-> "ParseError"]

\* C12: a getDirections call of a normalizing iteration whose request fails
\* has emitted one record of level error, holding the error, the origin and
\* the destination with ', WA' appended and no key, and has raised that same
\* error, with no second request sent; every other tool function whose call
\* fails has raised without emitting a record.
C12_LogsThenRethrows ==
  \A r \in Requests :
    (Settled(r) /\ inv[r].result.outcome = "raised") =>
      IF inv[r].tool = "getDirections" /\ variant \in {"route", "p2"}
      THEN /\ Len(Logs(r)) = 1
           /\ Logs(r)[1].level = "error"
           /\ DOMAIN Logs(r)[1].fields = {"e", "origin", "destination"}
           /\ Logs(r)[1].fields.e = ErrorOf(inv[r].resp)
           /\ Logs(r)[1].fields.origin.v = inv[r].args.origin.v \o <<",", " ", "W", "A">>
           /\ Logs(r)[1].fields.destination.v
                = inv[r].args.destination.v \o <<",", " ", "W", "A">>
           /\ ~HoldsCredential(Logs(r)[1])
           /\ inv[r].result.error = Logs(r)[1].fields.e
           /\ "value" \notin DOMAIN inv[r].result
           /\ nSent[r] = nCalls[r]
      ELSE Logs(r) = <<>>

\* the directions request of route.tsx was answered 404: one error record
\* was emitted and the HTTP error raised
C12_Witness ==
  \E r \in Requests :
    /\ variant = "route" /\ Settled(r) /\ inv[r].tool = "getDirections"
    /\ inv[r].resp.kind = "http" /\ inv[r].resp.status = 404
    /\ inv[r].result.outcome = "raised"
    /\ Len(Logs(r)) = 1 /\ Logs(r)[1].level = "error"

\* the decimal text of the radii the dispatcher supplies
RadiusText(n) == CASE n = 0 -> <<"0">>
                   [] n = 500 -> <<"5", "0", "0">>
                   [] n = 1000 -> <<"1", "0", "0", "0">>

\* C17: whenever the dispatcher supplies location or searchRadius to
\* searchForPlaces, a searchRadius of 0 and an empty location included, the
\* outbound request carries the supplied value, not the default.
C17_DefaultsOnlyForOmitted ==
  \A r \in Requests :
    (OnMaps(r) /\ inv[r].tool = "searchForPlaces") =>
      LET a == inv[r].args
          q == inv[r].wire.search
      IN  /\ ~Omitted(a, "location") => QsParam(q, "location") = a.location.v
          /\ ~Omitted(a, "searchRadius") =>
               QsParam(q, "radius") = RadiusText(a.searchRadius.v)

\* a place search with an empty location and a radius of 0 is on the wire
\* with location= and radius=0
C17_Witness ==
  \E r \in Requests :
    /\ OnMaps(r) /\ inv[r].tool = "searchForPlaces"
    /\ ~Omitted(inv[r].args, "location") /\ inv[r].args.location.v = <<>>
    /\ ~Omitted(inv[r].args, "searchRadius") /\ inv[r].args.searchRadius.v = 0
    /\ QsParam(inv[r].wire.search, "location") = <<>>
    /\ QsParam(inv[r].wire.search, "radius") = <<"0">>

\* C18: in route.tsx with FIXIE_API_KEY absent (or empty), every request ends
\* while App is rendered, with the configuration error: it never reaches the
\* registry, no tool is invoked and no mapping-service or corpus-service
\* request is sent for it.
C18_NoKeyNoRegistry ==
  (variant = "route" /\ ~Truthy(env.FIXIE_API_KEY)) =>
    \A r \in Requests :
      /\ pc[r] \in {"closed", "idle", "app", "aborted"}
      /\ pc[r] = "aborted" => err[r] = ConfigError
      /\ nCalls[r] = 0 /\ nSent[r] = 0
      /\ inv[r] = NoInv /\ corpus[r] = NoCorpus /\ aug[r] = NoAug

\* a question about directions was posted to route.tsx with the mapping
\* credential set and the corpus credential absent, and the request aborted
C18_Witness ==
  \E r \in Requests :
    /\ variant = "route" /\ IsUndefined(env.FIXIE_API_KEY)
    /\ Truthy(env.GOOGLE_MAPS_API_KEY)
    /\ Len(messages[r]) = 1
    /\ pc[r] = "aborted" /\ err[r] = ConfigError /\ nSent[r] = 0

\* where a request is once App has returned its element
PastApp == {"routing", "tools", "calling", "settled", "complete", "replied"}

\* what part_002 does with coporaPromise once the module is loaded, whatever
\* the number of requests: every request that got past App found it resolved,
\* and while it is rejected every request ends in App with its error and
\* invokes no tool
AwaitsCorpora ==
  /\ handled > 0 => coporaPromise.state # "unloaded"
  /\ \A r \in Requests :
       /\ pc[r] \in PastApp => coporaPromise.state = "resolved"
       /\ coporaPromise.state = "rejected" =>
            /\ pc[r] \in {"closed", "idle", "app", "aborted"}
            /\ nCalls[r] = 0 /\ nSent[r] = 0
            /\ pc[r] = "aborted" => err[r] = coporaPromise.error

\* C19 as stated: in part_002 the corpora-metadata request has been issued
\* exactly once as soon as the module is loaded, however many requests are
\* handled, and every request waits for its outcome and fails with its error.
C19_IssuedExactlyOnce ==
  variant = "p2" =>
    /\ coporaPromise.state # "unloaded" => Len(moduleSent) = 1
    /\ AwaitsCorpora

\* C19: in part_002 the corpora-metadata request is issued at module load and
\* never again, however many requests are handled: once when FIXIE_API_KEY is
\* set, and not at all when it is absent, fixieFetch then rejecting with the
\* configuration error before it sends anything. Every request waits for
\* that one outcome before it builds its registry, and while the outcome is a
\* rejection every request fails with that same error without invoking a tool.
C19_IssuedAtLoadOnly ==
  variant = "p2" =>
    /\ coporaPromise.state # "unloaded" =>
         Len(moduleSent) = (IF Truthy(env.FIXIE_API_KEY) THEN 1 ELSE 0)
    /\ coporaPromise.state = "unloaded" => Len(moduleSent) = 0
    /\ \A i \in 1..Len(moduleSent) :
         moduleSent[i].url = <<FixieFetchBaseUrl, "/graphql">>
    /\ (coporaPromise.state = "rejected" /\ Len(moduleSent) = 0) =>
         coporaPromise.error = ConfigError
    /\ AwaitsCorpora

\* the one corpora-metadata request was answered 500, and the second request
\* handled since has failed with that error
C19_Witness ==
  \E r \in Requests :
    /\ variant = "p2" /\ handled = 2 /\ Len(moduleSent) = 1
    /\ coporaPromise.state = "rejected"
    /\ coporaPromise.error = FixieStatusError(500)
    /\ pc[r] = "aborted" /\ err[r] = FixieStatusError(500)

\* C20: in the router iterations (part_000, part_001) the query the router
\* and UseTools work on is the content of the last message of the request;
\* a request with no message ends in App with a TypeError, with no route
\* chosen, no tool invoked and no outbound request.
C20_QueryIsLastMessage ==
  variant \in {"p0", "p1"} =>
    \A r \in Requests :
      /\ pc[r] \in PastApp =>
           /\ messages[r] # <<>>
           /\ latestQuery[r] = messages[r][Len(messages[r])].content
      /\ (messages[r] = <<>> /\ pc[r] \notin {"closed", "idle"}) =>
           /\ pc[r] \in {"app", "aborted"}
           /\ pc[r] = "aborted" => err[r] = TypeError
           /\ route[r] = "none" /\ nCalls[r] = 0 /\ nSent[r] = 0
           /\ inv[r] = NoInv

\* part_001 routed a conversation of three messages to the places route on
\* the content of its third message
C20_Witness ==
  \E r \in Requests :
    /\ variant = "p1" /\ Len(messages[r]) = 3
    /\ route[r] = "places" /\ pc[r] = "tools"
    /\ latestQuery[r] = "what is the capital of France?"

\* C16: a tool invocation whose request is out ends only through an answer
\* of the service or a transport failure. While none comes, no step (the
\* client going away included) changes the invocation or moves its request:
\* nothing times it out or cancels it. Every answer and every transport
\* failure ends it in the same step, by a return or by a raise; and no
\* invocation ends without its request having been out.
C16_CompletesOnlyOnResponse ==
  [][\A r \in Requests :
       /\ inv[r].state = "pending" =>
            \/ /\ inv'[r] = inv[r]
               /\ pc'[r] = "calling"
            \/ /\ inv'[r].state = "settled"
               /\ inv'[r].sent
               /\ "resp" \in DOMAIN inv'[r]
               /\ inv'[r].resp \in Responses(inv[r].tool)
               /\ inv'[r].wire = inv[r].wire
               /\ inv'[r].result.outcome \in {"returned", "raised"}
               /\ pc'[r] = "settled"
       /\ (inv'[r].state = "settled" /\ inv[r].state # "settled") =>
            inv[r].state = "pending"
       /\ pc[r] = "calling" => inv[r].state = "pending"]_vars

\* the client has gone away, and then the transport of the outstanding call
\* failed: the invocation ended by raising
C16_Witness ==
  \E r \in Requests :
    /\ ~connected[r] /\ Answered(r)
    /\ inv[r].resp.kind = "neterr"
    /\ inv[r].result.outcome = "raised"

\* C13: the outcome of a request comes from its own messages, the
\* configuration and the answers to the calls made for it. For a request that
\* ended in an error before any tool was invoked for it, no call was made for
\* it, so the error is the configuration's (the corpus credential is absent)
\* or its messages' (there is none); and the registry a request works with
\* was built while that request was handled.
C13_RequestScoped ==
  \A r \in Requests :
    /\ (pc[r] = "aborted" /\ nCalls[r] = 0) =>
         \/ err[r] = ConfigError /\ ~Truthy(env.FIXIE_API_KEY)
         \/ err[r] = TypeError /\ messages[r] = <<>>
    /\ pc[r] \in {"tools", "calling", "settled"} =>
         (variant \in CorpusVariants => corpus[r].corpusId = seattleCorpusId)

\* a step of the handling of request r
HandlerStep(r) ==
  \/ RenderApp(r)
  \/ \E choice \in Routes : RouteQuery(r, choice)
  \/ \E handling \in UseToolsOnFailure : ToolSettled(r, handling)
  \/ NoMoreTools(r)
  \/ Reply(r)

\* C14: a request that is being handled and is not at the await of a call
\* of its own can take its next step, whatever calls are outstanding
\* elsewhere: a pending call holds up only the request that issued it.
C14_OnlyIssuerWaits ==
  \A r \in Requests :
    pc[r] \in {"app", "routing", "tools", "settled", "complete"}
      => ENABLED HandlerStep(r)

=============================================================================
